---- MODULE Spec2Model ----
(***************************************************************************)
(* Download orchestration layer of the YouTube downloader web application  *)
(* (src/app.py, src/downloader.py): the download registry, the worker      *)
(* pool, the progress rooms, the metadata cache and the retention sweeper. *)
(*                                                                         *)
(* Scheduling.  app.py:7-8 monkey-patches the standard library with        *)
(* eventlet before anything else is imported, so the cleanup Thread and    *)
(* the ThreadPoolExecutor workers are cooperative green threads: control   *)
(* changes hands only where a thread blocks (time.sleep, the network I/O   *)
(* of the external download or metadata fetch).  One action is therefore   *)
(* one stretch of code between two blocking calls: a request handler, a    *)
(* sweep cycle, or the part of download_task after downloader.download     *)
(* has returned or raised.                                                 *)
(***************************************************************************)
EXTENDS Naturals, Integers, Sequences, FiniteSets, TLC

(* ------------------------- program constants -------------------------- *)
VIDEO_INFO_CACHE_TTL == 600
DOWNLOAD_TTL == 3600
CLEANUP_INTERVAL == 300
MaxWorkers == 5

(* ------------------------------ bounds -------------------------------- *)
\* number of download submissions in the registry model
MaxTasks == 2
\* number of download submissions in the burst model of the worker pool
MaxBurst == 7
\* progress-hook events one task publishes
MaxProgress == 1
\* number of times the clock advances
MaxTicks == 2
\* metadata requests in the cache model
MaxInfoRequests == 3
\* number of download submissions in the model of the worker slots
MaxLive == 6
\* formats the extractor returns for one url
MaxFormats == 17

\* the clock advances by a cache TTL or by a whole retention window
TickSteps == {VIDEO_INFO_CACHE_TTL, DOWNLOAD_TTL}
\* the clock values MaxTicks advances can reach
ClockValues ==
  {p[1] * VIDEO_INFO_CACHE_TTL + p[2] * DOWNLOAD_TTL :
     p \in {q \in (0..MaxTicks) \X (0..MaxTicks) : q[1] + q[2] <= MaxTicks}}

(* --------------------------- input domains ---------------------------- *)
\* urls submitted for download
Urls == {"u1"}
\* urls whose metadata is requested
InfoUrls == {"u1", "u2"}
NoUrl == ""
FormatTypes == {"video", "audio"}
Formats == {"mp4"}
NoSocket == ""
Sockets == {"s1", "s2"}
NoPath == [dir |-> "", base |-> "", ext |-> ""]
NoName == <<"", "">>
NoError == ""
NoId == 0
NoTime == -1
NoText == <<>>
\* no request answered yet
NoResponse ==
  [handler |-> "", status |-> 0, download_id |-> NoId, error |-> "", technical |-> NoText]

(* ------------------------------ texts --------------------------------- *)
\* Python strings that the code searches are sequences of characters
\* downloader.py:383, 'Requested format is not available'
PhraseFormatUnavailable ==
  <<"R", "e", "q", "u", "e", "s", "t", "e", "d", " ", "f", "o", "r", "m",
    "a", "t", " ", "i", "s", " ", "n", "o", "t", " ", "a", "v", "a", "i",
    "l", "a", "b", "l", "e">>
\* downloader.py:383, 'No video formats found'
PhraseNoFormats ==
  <<"N", "o", " ", "v", "i", "d", "e", "o", " ", "f", "o", "r", "m", "a",
    "t", "s", " ", "f", "o", "u", "n", "d">>
\* app.py:238, 'Sign in to confirm'
PhraseSignIn ==
  <<"S", "i", "g", "n", " ", "i", "n", " ", "t", "o", " ", "c", "o", "n",
    "f", "i", "r", "m">>
\* app.py:238, 'bot'
PhraseBot ==
  <<"b", "o", "t">>
\* downloader.py:152, 'Error getting video info: '
InfoErrorPrefix ==
  <<"E", "r", "r", "o", "r", " ", "g", "e", "t", "t", "i", "n", "g", " ",
    "v", "i", "d", "e", "o", " ", "i", "n", "f", "o", ":", " ">>
\* message of yt_dlp DownloadError, 'ERROR: Requested format is not available'
ErrFormatUnavailable ==
  <<"E", "R", "R", "O", "R", ":", " ", "R", "e", "q", "u", "e", "s", "t",
    "e", "d", " ", "f", "o", "r", "m", "a", "t", " ", "i", "s", " ", "n",
    "o", "t", " ", "a", "v", "a", "i", "l", "a", "b", "l", "e">>
\* message of yt_dlp DownloadError, 'ERROR: No video formats found'
ErrNoFormats ==
  <<"E", "R", "R", "O", "R", ":", " ", "N", "o", " ", "v", "i", "d", "e",
    "o", " ", "f", "o", "r", "m", "a", "t", "s", " ", "f", "o", "u", "n",
    "d">>
\* message of yt_dlp DownloadError, 'ERROR: HTTP Error 403: Forbidden'
ErrForbidden ==
  <<"E", "R", "R", "O", "R", ":", " ", "H", "T", "T", "P", " ", "E", "r",
    "r", "o", "r", " ", "4", "0", "3", ":", " ", "F", "o", "r", "b", "i",
    "d", "d", "e", "n">>
\* message of an exception that is no DownloadError, 'ffmpeg not found'
ErrPostprocess ==
  <<"f", "f", "m", "p", "e", "g", " ", "n", "o", "t", " ", "f", "o", "u",
    "n", "d">>
\* message of yt_dlp DownloadError, 'ERROR: Sign in to confirm you are not a bot'
ErrSignInBot ==
  <<"E", "R", "R", "O", "R", ":", " ", "S", "i", "g", "n", " ", "i", "n",
    " ", "t", "o", " ", "c", "o", "n", "f", "i", "r", "m", " ", "y", "o",
    "u", " ", "a", "r", "e", " ", "n", "o", "t", " ", "a", " ", "b", "o",
    "t">>
\* message of yt_dlp DownloadError, 'ERROR: Sign in to confirm your age'
ErrSignInAge ==
  <<"E", "R", "R", "O", "R", ":", " ", "S", "i", "g", "n", " ", "i", "n",
    " ", "t", "o", " ", "c", "o", "n", "f", "i", "r", "m", " ", "y", "o",
    "u", "r", " ", "a", "g", "e">>
\* the same in lower case, 'error: sign in to confirm your age'
ErrSignInLower ==
  <<"e", "r", "r", "o", "r", ":", " ", "s", "i", "g", "n", " ", "i", "n",
    " ", "t", "o", " ", "c", "o", "n", "f", "i", "r", "m", " ", "y", "o",
    "u", "r", " ", "a", "g", "e">>
\* message naming a bot in capitals, 'ERROR: BOT check required'
ErrBotUpper ==
  <<"E", "R", "R", "O", "R", ":", " ", "B", "O", "T", " ", "c", "h", "e",
    "c", "k", " ", "r", "e", "q", "u", "i", "r", "e", "d">>
\* message with the letters b-o-t inside a word, 'ERROR: blocked by robots.txt'
ErrRobots ==
  <<"E", "R", "R", "O", "R", ":", " ", "b", "l", "o", "c", "k", "e", "d",
    " ", "b", "y", " ", "r", "o", "b", "o", "t", "s", ".", "t", "x", "t">>

UpperCase == <<"A", "B", "C", "D", "E", "F", "G", "H", "I", "J", "K", "L", "M",
               "N", "O", "P", "Q", "R", "S", "T", "U", "V", "W", "X", "Y", "Z">>
LowerCase == <<"a", "b", "c", "d", "e", "f", "g", "h", "i", "j", "k", "l", "m",
               "n", "o", "p", "q", "r", "s", "t", "u", "v", "w", "x", "y", "z">>

\* str.lower()
Lower(text) ==
  [i \in 1..Len(text) |->
     IF \E k \in 1..Len(UpperCase) : UpperCase[k] = text[i]
     THEN LowerCase[CHOOSE k \in 1..Len(UpperCase) : UpperCase[k] = text[i]]
     ELSE text[i]]

\* Python "phrase in text"
Contains(text, phrase) ==
  \E i \in 0..(Len(text) - Len(phrase)) : SubSeq(text, i + 1, i + Len(phrase)) = phrase

\* what extract_info(url, download=True) can raise
DownloadFailures ==
  {[cls |-> "DownloadError", msg |-> ErrFormatUnavailable],
   [cls |-> "DownloadError", msg |-> ErrNoFormats],
   [cls |-> "DownloadError", msg |-> ErrForbidden],
   [cls |-> "Exception", msg |-> ErrPostprocess]}

\* what the metadata lookup of yt-dlp can raise
FetchFailures ==
  {ErrSignInBot, ErrSignInAge, ErrSignInLower, ErrBotUpper, ErrRobots, ErrForbidden}

VARIABLES
  now,               \* wall clock, seconds (datetime.now / time.time)
  active_downloads,  \* app.py:56, download_id -> record
  tasks,             \* closure of each download_task: url, format, format_type, socket_id
  pc,                \* position of each download_task in the executor
  queue,             \* work queue of download_executor
  files,             \* paths that exist in the download folder
  rooms,             \* events published to each socket room, oldest first
  outcome,           \* history: what the worker wrote into its record on ending
  caught,            \* history: message of the exception download_task caught
  attempts,          \* history: calls of extract_info(url, download=True) per task
  first_error,       \* history: message of the exception the first attempt raised
  video_info_cache,  \* app.py:59, url -> [data, timestamp]
  fetches,           \* metadata requests blocked in the external fetch
  fetch_calls,       \* history: external metadata fetches issued per url
  info_requests,     \* history: metadata requests handled so far
  cache_hits,        \* history: metadata requests answered from the cache per url
  last_fetch,        \* history: when the fetch that last filled the cache was issued
  response,          \* the HTTP response sent last
  download_args,     \* quality, format and format_type of a call of download()
  format_string,     \* downloader.py:207-277, the format expression built for it
  formats,           \* what downloader.list_formats returned for the url
  listing,           \* video_formats and audio_formats of the formats reply
  cleanup_threads,   \* cleanup_loop threads started in this process
  startup            \* __name__ of app.py and how far its top-level code has run

vars == <<now, active_downloads, tasks, pc, queue, files, rooms, outcome,
          caught, attempts, first_error, video_info_cache, fetches, fetch_calls, info_requests, cache_hits,
          last_fetch, response, download_args, format_string, formats, listing,
          cleanup_threads, startup>>

\* the state of the format policy, of the formats listing and of the startup
otherVars == <<download_args, format_string, formats, listing, cleanup_threads, startup>>
cacheVars ==
  <<video_info_cache, fetches, fetch_calls, info_requests, cache_hits, last_fetch>>
taskVars ==
  <<active_downloads, tasks, pc, queue, files, rooms, outcome, caught, attempts,
    first_error>>

Ids == DOMAIN tasks

(* ------------------------------ helpers ------------------------------- *)
\* downloader.py:283, outtmpl '%(title)s.%(ext)s' under output_dir; the title of
\* the video at a url is written as the url itself
OutputPath(url, ext) == [dir |-> "downloads", base |-> url, ext |-> ext]

\* os.path.basename
Basename(path) == <<path.base, path.ext>>

\* downloader.py:369-374, extension of the path download() returns
FinalExt(format_type, format) ==
  IF format_type = "audio"
  THEN (IF format \in {"mp3", "m4a", "opus", "flac"} THEN format ELSE "mp3")
  ELSE (IF format \in {"mp4", "webm", "mkv"} THEN format ELSE "mp4")

\* os.path.exists / Path.exists
Exists(path, disk) == path \in disk

\* mutant of Emit: the newest event is put in front of the room's stream
EmitInFront(rm, socket_id, event) ==
  IF socket_id = NoSocket THEN rm
  ELSE [rm EXCEPT ![socket_id] = <<event>> \o @]

\* socketio.emit(..., room=socket_id) guarded by "if socket_id"
Emit(rm, socket_id, event) ==
  IF socket_id = NoSocket THEN rm
  ELSE [rm EXCEPT ![socket_id] = Append(@, event)]

\* app.py:86-96 and 100-103, the two download_progress payloads; src is history
\* (the task whose hook published the event), the payload itself names no task
ProgressEvent(t, status) ==
  [src |-> t, name |-> "download_progress", status |-> status,
   download_id |-> NoId, filename |-> NoName, error |-> NoError]

\* app.py:360-363
CompleteEvent(t, filename) ==
  [src |-> t, name |-> "download_complete", status |-> "",
   download_id |-> t, filename |-> Basename(filename), error |-> NoError]

\* app.py:374-376
ErrorEvent(t, msg) ==
  [src |-> t, name |-> "download_error", status |-> "",
   download_id |-> NoId, filename |-> NoName, error |-> msg]

\* jsonify(...), status: the response of a handler; error is the 'error' field of
\* the body ("" in a success, "str(e)" when it is the text of the exception),
\* technical the text of the exception the body carries
Reply(handler, status, download_id, error, technical) ==
  [handler |-> handler, status |-> status, download_id |-> download_id,
   error |-> error, technical |-> technical]

\* app.py:379-383, the record start_download stores
NewRecord(url, t) ==
  [status |-> "downloading", url |-> url, timestamp |-> t,
   filepath |-> NoPath, filename |-> NoName, error |-> NoError]

\* mutant of CompletedUpdate: the record is written after the event is emitted
CompletedUpdateDeferred(rec, filename, t) == rec

\* app.py:350-355
CompletedUpdate(rec, filename, t) ==
  [rec EXCEPT !.status = "completed", !.filename = Basename(filename),
              !.filepath = filename, !.timestamp = t]

\* mutant of ErrorUpdate: the status is written without the error message
ErrorUpdateStatusOnly(rec, msg, t) ==
  [rec EXCEPT !.status = "error", !.timestamp = t]

\* app.py:367-371
ErrorUpdate(rec, msg, t) ==
  [rec EXCEPT !.status = "error", !.error = msg, !.timestamp = t]

\* mutant of Running: a worker whose work item raised is lost to the pool
RunningOrCrashed == {t \in Ids : pc[t] \in {"running", "fallback", "crashed"}}

\* tasks a worker thread of download_executor is executing: in the first call of
\* extract_info or in the fallback call
Running == {t \in Ids : pc[t] \in {"running", "fallback"}}

\* events of task t in a room, oldest first
EventsOf(t, room) == SelectSeq(room, LAMBDA e : e.src = t)

(* --------------------------- format policy --------------------------- *)
\* quality values: 'best', 'worst', and resolution ceilings with and without 'p'
QualityBest == <<"b", "e", "s", "t">>
QualityWorst == <<"w", "o", "r", "s", "t">>
Qualities ==
  {QualityBest, QualityWorst, <<"7", "2", "0", "p">>, <<"1", "0", "8", "0", "p">>,
   <<"4", "8", "0">>, <<"p", "1", "4", "4", "p">>}
\* container values of a request: the three video containers and an audio one
Containers == {"mp4", "webm", "mkv", "mp3"}
\* format_type values: 'video', 'audio', and a value that is neither
SelectionTypes == FormatTypes \cup {"both"}
NoHeight == <<"none">>
NoExt == ""
NoArgs == [quality |-> <<>>, format |-> "", format_type |-> ""]
NoFormatString == <<>>

\* one selector of a format expression, name[height<=h][ext=e]
Selector(name, height, ext) == [name |-> name, height |-> height, ext |-> ext]
\* an alternative of the expression: one selector, or two joined by '+'
Single(a) == <<a>>
Merged(v, a) == <<v, a>>

\* downloader.py:226, quality.replace('p', '')
Height(quality) == SelectSeq(quality, LAMBDA c : c # "p")

\* downloader.py:212 and 256, the container the expression is built for
Ext(format) == IF format \in {"mp4", "webm", "mkv"} THEN format ELSE "mp4"

\* mutant of FormatString: every request gets the expression of quality 'best'
FormatStringOfBest(quality, format, format_type) ==
  <<Merged(Selector("bestvideo", NoHeight, Ext(format)),
           Selector("bestaudio", NoHeight, NoExt)),
    Merged(Selector("bestvideo", NoHeight, NoExt),
           Selector("bestaudio", NoHeight, NoExt)),
    Single(Selector("best", NoHeight, NoExt))>>

\* downloader.py:207-277, the format expression as the list of its alternatives,
\* the '/'-separated parts in order
FormatString(quality, format, format_type) ==
  LET ext == Ext(format)
      height == Height(quality)
      best == Single(Selector("best", NoHeight, NoExt))
      any == Merged(Selector("bestvideo", NoHeight, NoExt),
                    Selector("bestaudio", NoHeight, NoExt))
  IN
  IF format_type = "audio"
  THEN <<Single(Selector("bestaudio", NoHeight, NoExt)), best>>
  ELSE IF format_type = "video"
  THEN IF quality = QualityBest
       THEN IF ext = "mp4"
            THEN <<Merged(Selector("bestvideo", NoHeight, "mp4"),
                          Selector("bestaudio", NoHeight, "m4a")),
                   any, best>>
            ELSE IF ext = "webm"
            THEN <<Merged(Selector("bestvideo", NoHeight, "webm"),
                          Selector("bestaudio", NoHeight, "webm")),
                   any, best>>
            ELSE <<any, best>>
       ELSE IF quality = QualityWorst
       THEN <<Merged(Selector("worstvideo", NoHeight, NoExt),
                     Selector("worstaudio", NoHeight, NoExt)),
              Single(Selector("worst", NoHeight, NoExt))>>
       ELSE IF ext = "mp4"
            THEN <<Single(Selector("best", height, "mp4")),
                   Single(Selector("best", height, NoExt)),
                   Merged(Selector("bestvideo", height, "mp4"),
                          Selector("bestaudio", NoHeight, "m4a")),
                   Merged(Selector("bestvideo", height, "mp4"),
                          Selector("bestaudio", NoHeight, NoExt)),
                   Merged(Selector("bestvideo", height, NoExt),
                          Selector("bestaudio", NoHeight, "m4a")),
                   Merged(Selector("bestvideo", height, NoExt),
                          Selector("bestaudio", NoHeight, NoExt)),
                   Single(Selector("best", NoHeight, "mp4")),
                   best>>
            ELSE IF ext = "webm"
            THEN <<Single(Selector("best", height, "webm")),
                   Single(Selector("best", height, NoExt)),
                   Merged(Selector("bestvideo", height, "webm"),
                          Selector("bestaudio", NoHeight, "webm")),
                   Merged(Selector("bestvideo", height, "webm"),
                          Selector("bestaudio", NoHeight, NoExt)),
                   Merged(Selector("bestvideo", height, NoExt),
                          Selector("bestaudio", NoHeight, NoExt)),
                   Single(Selector("best", NoHeight, "webm")),
                   best>>
            ELSE <<Single(Selector("best", height, NoExt)),
                   Merged(Selector("bestvideo", height, NoExt),
                          Selector("bestaudio", NoHeight, NoExt)),
                   best>>
  ELSE IF ext = "mp4"
       THEN <<Single(Selector("best", NoHeight, "mp4")),
              Merged(Selector("bestvideo", NoHeight, "mp4"),
                     Selector("bestaudio", NoHeight, "m4a")),
              Merged(Selector("bestvideo", NoHeight, "mp4"),
                     Selector("bestaudio", NoHeight, NoExt)),
              Merged(Selector("bestvideo", NoHeight, NoExt),
                     Selector("bestaudio", NoHeight, "m4a")),
              any, best>>
       ELSE IF ext = "webm"
       THEN <<Single(Selector("best", NoHeight, "webm")),
              Merged(Selector("bestvideo", NoHeight, "webm"),
                     Selector("bestaudio", NoHeight, "webm")),
              Merged(Selector("bestvideo", NoHeight, "webm"),
                     Selector("bestaudio", NoHeight, NoExt)),
              any, best>>
       ELSE <<best, any>>

\* downloader.py:207-286, download() builds the expression from its arguments
BuildFormatString ==
  /\ download_args # NoArgs
  /\ format_string = NoFormatString
  /\ format_string' = FormatString(download_args.quality, download_args.format,
                                   download_args.format_type)
  /\ UNCHANGED <<now, taskVars, cacheVars, response, download_args, formats,
                 listing, cleanup_threads, startup>>

(* ------------------------ POST /api/list-formats ---------------------- *)
\* app.py:289-290, the caps of the two lists
VideoCap == 10
AudioCap == 5
\* downloader.py:171, resolution 'audio only'; other resolutions are 1, 2, ...
AudioOnly == 0

\* downloader.py:168-177, one entry of downloader.list_formats by the kind of the
\* extractor's format: video only, video with audio, audio only, neither codec
\* (storyboard), and a video codec without a resolution
Format(format_id, kind, resolution) ==
  [format_id |-> format_id,
   resolution |-> IF kind \in {"audio", "unsized"} THEN AudioOnly ELSE resolution,
   vcodec |-> IF kind \in {"audio", "storyboard"} THEN "none" ELSE "avc1",
   acodec |-> IF kind \in {"video", "storyboard", "unsized"} THEN "none" ELSE "mp4a"]

\* the orders in which the kinds follow each other in the extractor's list
KindPatterns ==
  {<<"video">>, <<"audio">>, <<"video", "audio", "video">>, <<"combined", "video">>,
   <<"storyboard", "unsized", "audio", "combined", "video">>}

\* a list of len formats: the kinds repeat the pattern, the resolutions repeat
\* with the period
ExtractorFormats(len, pattern, period) ==
  [i \in 1..len |->
     Format(i, pattern[((i - 1) % Len(pattern)) + 1], ((i - 1) % period) + 1)]

\* the lists downloader.list_formats returns
FormatLists ==
  {ExtractorFormats(len, pattern, period) :
     len \in 0..MaxFormats, pattern \in KindPatterns, period \in {1, 3, MaxFormats}}

\* no formats reply built
NoListing == [video_formats |-> <<>>, audio_formats |-> <<>>, built |-> FALSE]

\* app.py:265-286, the loop over formats from entry i on; ext, size and quality
\* of an entry are copied from the format and left out
RECURSIVE Scan(_, _, _, _, _)
Scan(fmts, i, seen_resolutions, video_formats, audio_formats) ==
  IF i > Len(fmts)
  THEN [video_formats |-> video_formats, audio_formats |-> audio_formats]
  ELSE LET fmt == fmts[i] IN
       IF fmt.vcodec # "none"
       THEN IF fmt.resolution \notin seen_resolutions /\ fmt.resolution # AudioOnly
            THEN Scan(fmts, i + 1, seen_resolutions \cup {fmt.resolution},
                      Append(video_formats,
                             [id |-> fmt.format_id, resolution |-> fmt.resolution]),
                      audio_formats)
            ELSE Scan(fmts, i + 1, seen_resolutions, video_formats, audio_formats)
       ELSE IF fmt.acodec # "none"
       THEN Scan(fmts, i + 1, seen_resolutions, video_formats,
                 Append(audio_formats, [id |-> fmt.format_id]))
       ELSE Scan(fmts, i + 1, seen_resolutions, video_formats, audio_formats)

\* Python s[:n]
Slice(s, n) == SubSeq(s, 1, IF Len(s) < n THEN Len(s) ELSE n)

\* mutant of Listing: the lists are returned whole
ListingUncapped(fmts) ==
  [video_formats |-> Scan(fmts, 1, {}, <<>>, <<>>).video_formats,
   audio_formats |-> Scan(fmts, 1, {}, <<>>, <<>>).audio_formats,
   built |-> TRUE]

\* app.py:262-295, the two lists of the reply
Listing(fmts) ==
  [video_formats |-> Slice(Scan(fmts, 1, {}, <<>>, <<>>).video_formats, VideoCap),
   audio_formats |-> Slice(Scan(fmts, 1, {}, <<>>, <<>>).audio_formats, AudioCap),
   built |-> TRUE]

\* app.py:248-298; raised: downloader.list_formats raises instead of returning
list_formats(url, raised) ==
  /\ ~listing.built
  /\ IF url = NoUrl
     THEN /\ response' = Reply("list_formats", 400, NoId, "URL is required", NoText)
          /\ UNCHANGED listing
     ELSE IF raised
     THEN /\ response' = Reply("list_formats", 400, NoId, "str(e)", NoText)
          /\ UNCHANGED listing
     ELSE /\ response' = Reply("list_formats", 200, NoId, "", NoText)
          /\ listing' = Listing(formats)
  /\ UNCHANGED <<now, taskVars, cacheVars, download_args, format_string, formats,
                 cleanup_threads, startup>>

(* ------------------------------ startup ------------------------------- *)
\* the ways app.py is loaded: imported by a server (gunicorn app:app), or run as
\* the main program (python app.py)
ModuleNames == {"app", "__main__"}

\* app.py:163-173, start_cleanup_thread: one more cleanup_loop thread
start_cleanup_thread(threads) == threads + 1

\* app.py:496-510, the top-level code every load of the module runs: init_app
\* has no _initialized attribute yet, so it is called and starts a cleanup thread
ModuleLoad ==
  /\ startup.at = "load"
  /\ cleanup_threads' = start_cleanup_thread(cleanup_threads)
  /\ startup' = [startup EXCEPT !.at = IF startup.name = "__main__" THEN "main"
                                       ELSE "serving"]
  /\ UNCHANGED <<now, taskVars, cacheVars, response, download_args, format_string,
                 formats, listing>>

\* app.py:513-524, the block under "if __name__ == '__main__'": it starts a
\* cleanup thread and runs the server
Main ==
  /\ startup.at = "main"
  /\ cleanup_threads' = start_cleanup_thread(cleanup_threads)
  /\ startup' = [startup EXCEPT !.at = "serving"]
  /\ UNCHANGED <<now, taskVars, cacheVars, response, download_args, format_string,
                 formats, listing>>

(* --------------------------- initial state ---------------------------- *)

\* app.py:496-510 run under a production server: init_app has started the one
\* cleanup thread and the server takes requests
Imported ==
  /\ cleanup_threads = 1
  /\ startup = [name |-> "app", at |-> "serving"]

\* no call of download() or of list_formats under observation
NoCalls ==
  /\ download_args = NoArgs
  /\ format_string = NoFormatString
  /\ formats = <<>>
  /\ listing = NoListing

\* app.py:56-59, the empty registry and cache of a fresh process
InitRegistry ==
  /\ now = 0
  /\ active_downloads = [id \in {} |-> NewRecord(NoUrl, 0)]
  /\ tasks = <<>>
  /\ pc = <<>>
  /\ queue = <<>>
  /\ files = {}
  /\ rooms = [s \in Sockets |-> <<>>]
  /\ outcome = <<>>
  /\ caught = <<>>
  /\ attempts = <<>>
  /\ first_error = <<>>
  /\ video_info_cache = [u \in {} |-> [data |-> NoUrl, timestamp |-> 0]]
  /\ fetches = {}
  /\ fetch_calls = [u \in InfoUrls |-> 0]
  /\ info_requests = 0
  /\ cache_hits = [u \in InfoUrls |-> 0]
  /\ last_fetch = [u \in InfoUrls |-> NoTime]
  /\ response = NoResponse

Init == InitRegistry /\ NoCalls /\ Imported

(* ------------------------------ clock --------------------------------- *)
\* download_executor.submit wakes or spawns a worker at once: a work item waits
\* only while every worker is busy
WorkerIdle == queue # <<>> /\ Cardinality(Running) < MaxWorkers

\* time passes; no clock time passes between a submission and its start by an
\* idle worker
Tick(d) ==
  /\ now + d \in ClockValues
  /\ ~WorkerIdle
  /\ now' = now + d
  /\ UNCHANGED <<taskVars, cacheVars, response, otherVars>>

(* -------------------------- POST /api/download ------------------------ *)
\* app.py:317-392, a request that carries a url: the id, the record, the submission
\* to the pool and the response.  uuid4 ids are written 1, 2, ... in order of
\* creation.
Register(limit, client, url, format, format_type, socket_id) ==
  LET download_id == Len(tasks) + 1 IN
  /\ Len(tasks) < limit
  /\ active_downloads' =
       [id \in DOMAIN active_downloads \cup {download_id} |->
          IF id = download_id THEN NewRecord(url, now) ELSE active_downloads[id]]
  /\ tasks' = Append(tasks, [url |-> url, format |-> format,
                             format_type |-> format_type, socket_id |-> socket_id,
                             client |-> client])
  /\ pc' = Append(pc, "queued")
  /\ outcome' = Append(outcome, "none")
  /\ caught' = Append(caught, NoError)
  /\ attempts' = Append(attempts, 0)
  /\ first_error' = Append(first_error, NoText)
  /\ queue' = Append(queue, download_id)   \* download_executor.submit
  /\ response' = Reply("start_download", 200, download_id, "", NoText)
  /\ UNCHANGED <<otherVars, now, files, rooms, cacheVars>>

\* mutant of start_download: the url is not checked
start_download_unvalidated(limit, client, url, format, format_type, socket_id) ==
  Register(limit, client, url, format, format_type, socket_id)

\* app.py:302-396.  client is the connection of the browser that sends the
\* request; the handler has no access to it and reads socket_id from the request
\* body (312).
start_download(limit, client, url, format, format_type, socket_id) ==
  IF url = NoUrl
  THEN /\ response' = Reply("start_download", 400, NoId, "URL is required", NoText)
       /\ UNCHANGED <<otherVars, now, taskVars, cacheVars>>
  ELSE Register(limit, client, url, format, format_type, socket_id)

\* mutant of StartTask: a thread is spawned for every work item
StartTaskUnbounded ==
  /\ queue # <<>>
  /\ pc' = [pc EXCEPT ![Head(queue)] = "running"]
  /\ attempts' = [attempts EXCEPT ![Head(queue)] = 1]     \* downloader.py:361-362
  /\ queue' = Tail(queue)
  /\ UNCHANGED <<otherVars, now, active_downloads, tasks, files, rooms, outcome, caught,
                 first_error, cacheVars, response>>

\* mutant of StartTask: the work item stays in the queue for the next free worker
StartTaskKeepsItem ==
  /\ queue # <<>>
  /\ Cardinality(Running) < MaxWorkers
  /\ pc' = [pc EXCEPT ![Head(queue)] = "running"]
  /\ attempts' = [attempts EXCEPT ![Head(queue)] = @ + 1]
  /\ UNCHANGED <<otherVars, now, active_downloads, tasks, queue, files, rooms, outcome, caught,
                 first_error, cacheVars, response>>

\* mutant of StartTask: a worker takes the newest work item
StartTaskNewest ==
  /\ queue # <<>>
  /\ Cardinality(Running) < MaxWorkers
  /\ pc' = [pc EXCEPT ![queue[Len(queue)]] = "running"]
  /\ attempts' = [attempts EXCEPT ![queue[Len(queue)]] = 1]
  /\ queue' = SubSeq(queue, 1, Len(queue) - 1)
  /\ UNCHANGED <<otherVars, now, active_downloads, tasks, files, rooms, outcome, caught,
                 first_error, cacheVars, response>>

\* a worker thread of ThreadPoolExecutor(max_workers=5) takes the oldest work item
StartTask ==
  /\ queue # <<>>
  /\ Cardinality(Running) < MaxWorkers
  /\ pc' = [pc EXCEPT ![Head(queue)] = "running"]
  /\ attempts' = [attempts EXCEPT ![Head(queue)] = 1]     \* downloader.py:361-362
  /\ queue' = Tail(queue)
  /\ UNCHANGED <<otherVars, now, active_downloads, tasks, files, rooms, outcome, caught,
                 first_error, cacheVars, response>>

\* mutant of ProgressHook: the hook also fires once the task has ended
ProgressHookLate(t, status) ==
  /\ pc[t] \in {"running", "fallback", "done"}
  /\ tasks[t].socket_id # NoSocket
  /\ Len(EventsOf(t, rooms[tasks[t].socket_id])) < MaxProgress + 1
  /\ rooms' = Emit(rooms, tasks[t].socket_id,
                   ProgressEvent(t, IF status = "finished" THEN "processing"
                                    ELSE "downloading"))
  /\ UNCHANGED <<otherVars, now, active_downloads, tasks, pc, queue, files, outcome,
                 caught, attempts, first_error, cacheVars, response>>

\* app.py:77-103, the progress hook yt-dlp calls while download() runs
ProgressHook(t, status) ==
  /\ t \in Running
  /\ tasks[t].socket_id # NoSocket
  /\ Len(EventsOf(t, rooms[tasks[t].socket_id])) < MaxProgress
  /\ rooms' = Emit(rooms, tasks[t].socket_id,
                   ProgressEvent(t, IF status = "finished" THEN "processing"
                                    ELSE "downloading"))
  /\ UNCHANGED <<otherVars, now, active_downloads, tasks, pc, queue, files, outcome,
                 caught, attempts, first_error, cacheVars, response>>

(* ------------------- download_task after download() ------------------- *)
\* str(e) of the exceptions download_task can catch
MsgDownloadFailed == "Download failed"
MsgFallbackFailed == "Download failed even with best format fallback"
MsgFileNotFound == "Download completed but file not found"
MsgKeyError == "KeyError"

\* extensions of the file the external library can leave on disk
WrittenExts == {"mp4", "mp3"}
\* extensions of the 'best' format, which prepare_filename(info) returns
NativeExts == {"mp4", "webm"}

\* app.py:365-376, the except branch.  The update at 367 raises KeyError when the
\* sweeper has removed the record; nothing catches it, the Future swallows it and
\* the worker thread goes back to the queue.
HandleFailure(t, msg, disk) ==
  /\ caught' = [caught EXCEPT ![t] = msg]
  /\ files' = disk
  /\ IF t \in DOMAIN active_downloads
     THEN /\ active_downloads' =
               [active_downloads EXCEPT ![t] = ErrorUpdate(@, msg, now)]
          /\ rooms' = Emit(rooms, tasks[t].socket_id, ErrorEvent(t, msg))
          /\ outcome' = [outcome EXCEPT ![t] = "error"]
          /\ pc' = [pc EXCEPT ![t] = "done"]
     ELSE /\ pc' = [pc EXCEPT ![t] = "crashed"]
          /\ UNCHANGED <<active_downloads, rooms, outcome>>
  /\ UNCHANGED <<otherVars, now, tasks, queue, attempts, cacheVars, response>>

\* mutant of ArtifactVerified: the existence check left out
ArtifactAssumed(filename, disk) == TRUE

\* app.py:347, "if not os.path.exists(filename): raise"
ArtifactVerified(filename, disk) == Exists(filename, disk)

\* app.py:347-363, download_task once download() has returned filename, the disk
\* holding `disk`
Finish(t, filename, disk) ==
  IF ~ArtifactVerified(filename, disk)
  THEN HandleFailure(t, MsgFileNotFound, disk)          \* 347-348
  ELSE IF t \notin DOMAIN active_downloads
  THEN HandleFailure(t, MsgKeyError, disk)              \* 350 raises
  ELSE /\ active_downloads' =
            [active_downloads EXCEPT ![t] = CompletedUpdate(@, filename, now)]
       /\ rooms' = Emit(rooms, tasks[t].socket_id, CompleteEvent(t, filename))
       /\ outcome' = [outcome EXCEPT ![t] = "completed"]
       /\ pc' = [pc EXCEPT ![t] = "done"]
       /\ files' = disk
       /\ UNCHANGED <<otherVars, now, tasks, queue, caught, attempts, cacheVars, response>>

\* app.py:337-363 and downloader.py:360-379, the first extract_info returned: the
\* library left a file with extension `written` on disk and download() returned
\* the path it computed.
DownloadReturns(t, written) ==
  /\ pc[t] = "running"
  /\ UNCHANGED first_error
  /\ Finish(t, OutputPath(tasks[t].url, FinalExt(tasks[t].format_type, tasks[t].format)),
            files \cup {OutputPath(tasks[t].url, written)})

\* mutant of FallbackTriggered: every DownloadError is retried
FallbackOnAnyDownloadError(e) == e.cls = "DownloadError"

\* downloader.py:380-383, the failure of the first attempt that is retried
FallbackTriggered(e) ==
  /\ e.cls = "DownloadError"
  /\ \/ Contains(e.msg, PhraseFormatUnavailable)
     \/ Contains(e.msg, PhraseNoFormats)

\* downloader.py:380-402 and app.py:365, the first extract_info raised e: download()
\* calls extract_info again with format 'best' (385-387), or raises
DownloadRaises(t, e) ==
  /\ pc[t] = "running"
  /\ first_error' = [first_error EXCEPT ![t] = e.msg]
  /\ IF FallbackTriggered(e)
     THEN /\ pc' = [pc EXCEPT ![t] = "fallback"]
          /\ attempts' = [attempts EXCEPT ![t] = @ + 1]
          /\ UNCHANGED <<otherVars, now, active_downloads, tasks, queue, files, rooms, outcome,
                         caught, cacheVars, response>>
     ELSE HandleFailure(t, MsgDownloadFailed, files)

\* downloader.py:388-395, extension of the path the fallback returns
FallbackExt(format_type, format, native) ==
  IF format_type = "audio"
  THEN (IF format \in {"mp3", "m4a", "opus", "flac"} THEN format ELSE "mp3")
  ELSE native

\* downloader.py:386-395, the fallback extract_info returned
FallbackReturns(t, native, written) ==
  /\ pc[t] = "fallback"
  /\ UNCHANGED first_error
  /\ Finish(t, OutputPath(tasks[t].url,
                          FallbackExt(tasks[t].format_type, tasks[t].format, native)),
            files \cup {OutputPath(tasks[t].url, written)})

\* downloader.py:396-397, the fallback extract_info raised
FallbackRaises(t) ==
  /\ pc[t] = "fallback"
  /\ UNCHANGED first_error
  /\ HandleFailure(t, MsgFallbackFailed, files)

(* -------------------------- retention sweeper ------------------------- *)
\* mutant of Expired: a record is dropped as soon as its age reaches the TTL
ExpiredAtTTL(id) == now - active_downloads[id].timestamp >= DOWNLOAD_TTL

\* app.py:115-118
Expired(id) == now - active_downloads[id].timestamp > DOWNLOAD_TTL

\* app.py:150
CacheExpired(u) == now - video_info_cache[u].timestamp > VIDEO_INFO_CACHE_TTL

\* app.py:122-126, the files one sweep unlinks
Doomed ==
  {active_downloads[id].filepath : id \in
     {i \in DOMAIN active_downloads :
        /\ Expired(i)
        /\ active_downloads[i].status = "completed"
        /\ active_downloads[i].filepath # NoPath
        /\ Exists(active_downloads[i].filepath, files)}}

\* mutant of cleanup_old_downloads: a record whose file could not be deleted stays
cleanup_keeps_undeleted(failing) ==
  /\ files' = files \ (Doomed \ failing)
  /\ active_downloads' =
       [id \in {i \in DOMAIN active_downloads :
                  ~Expired(i) \/ active_downloads[i].filepath \in failing} |->
          active_downloads[id]]

\* app.py:106-140
cleanup_old_downloads(failing) ==
  /\ files' = files \ (Doomed \ failing)     \* unlink, 128-129 logs a failure
  /\ active_downloads' =
       [id \in {i \in DOMAIN active_downloads : ~Expired(i)} |-> active_downloads[id]]

\* app.py:143-160
cleanup_video_info_cache ==
  video_info_cache' =
    [u \in {v \in DOMAIN video_info_cache : ~CacheExpired(v)} |-> video_info_cache[u]]

\* app.py:165-169, one turn of cleanup_loop once its sleep has ended
SweepCycle ==
  /\ cleanup_threads > 0
  /\ now >= CLEANUP_INTERVAL              \* the loop sleeps before its first sweep
  /\ \E failing \in SUBSET Doomed : cleanup_old_downloads(failing)
  /\ cleanup_video_info_cache
  /\ UNCHANGED <<otherVars, now, tasks, pc, queue, rooms, outcome, caught, attempts,
                 first_error, fetches, fetch_calls, info_requests, cache_hits,
                 last_fetch, response>>

(* ----------------------------- read paths ----------------------------- *)
\* app.py:399-405
download_status(download_id) ==
  /\ response' =
       IF download_id \notin DOMAIN active_downloads
       THEN Reply("download_status", 404, download_id, "Download not found", NoText)
       ELSE Reply("download_status", 200, download_id, "", NoText)
  /\ UNCHANGED <<otherVars, now, taskVars, cacheVars>>

\* mutant of NotCompleted: the message does not tell the status
NotCompletedPlain(status) == "Download not completed."

\* app.py:417, f"Download not completed. Status: {status}"
NotCompleted(status) == "Download not completed. Status: " \o status

\* app.py:427-435
ProbeOrder == <<"mp3", "m4a", "opus", "flac", "mp4", "webm", "mkv">>

\* mutant of FirstSibling: the first candidate is taken without probing the disk
FirstSiblingUnprobed(filepath, disk) == [filepath EXCEPT !.ext = ProbeOrder[1]]

\* app.py:426-443, the first sibling of filepath that exists, NoPath when none does
FirstSibling(filepath, disk) ==
  LET hits == {i \in DOMAIN ProbeOrder : Exists([filepath EXCEPT !.ext = ProbeOrder[i]], disk)}
  IN IF hits = {} THEN NoPath
     ELSE [filepath EXCEPT !.ext = ProbeOrder[CHOOSE i \in hits : \A j \in hits : i <= j]]

\* mutant of download_file: a completed download whose file is lost is marked 'error'
download_file_marks_lost(download_id) ==
  /\ download_id \in DOMAIN active_downloads
  /\ active_downloads[download_id].status = "completed"
  /\ ~Exists(active_downloads[download_id].filepath, files)
  /\ active_downloads' = [active_downloads EXCEPT ![download_id].status = "error"]
  /\ UNCHANGED <<otherVars, now, tasks, pc, queue, files, rooms, outcome, caught, attempts,
                 first_error, cacheVars, response>>

\* app.py:408-456
download_file(download_id) ==
  IF download_id \notin DOMAIN active_downloads
  THEN /\ response' = Reply("download_file", 404, download_id, "Download not found", NoText)
       /\ UNCHANGED <<otherVars, now, taskVars, cacheVars>>
  ELSE LET download_info == active_downloads[download_id]
           filepath == download_info.filepath
       IN IF download_info.status # "completed"
          THEN /\ response' = Reply("download_file", 400, download_id,
                                    NotCompleted(download_info.status), NoText)
               /\ UNCHANGED <<otherVars, now, taskVars, cacheVars>>
          ELSE IF filepath = NoPath
          THEN /\ response' = Reply("download_file", 500, download_id,
                                    "File path not found in download info", NoText)
               /\ UNCHANGED <<otherVars, now, taskVars, cacheVars>>
          ELSE IF Exists(filepath, files)
          THEN /\ response' = Reply("download_file", 200, download_id, "", NoText)
               /\ UNCHANGED <<otherVars, now, taskVars, cacheVars>>              \* send_file
          ELSE IF FirstSibling(filepath, files) = NoPath
          THEN /\ response' = Reply("download_file", 404, download_id, "File not found", NoText)
               /\ UNCHANGED <<otherVars, now, taskVars, cacheVars>>
          ELSE /\ active_downloads' =
                    [active_downloads EXCEPT
                       ![download_id].filepath = FirstSibling(filepath, files),
                       ![download_id].filename = Basename(FirstSibling(filepath, files))]
               /\ response' = Reply("download_file", 200, download_id, "", NoText)
               /\ UNCHANGED <<otherVars, now, tasks, pc, queue, files, rooms, outcome,
                              caught, attempts, first_error, cacheVars>>

(* ------------------------ POST /api/video-info ------------------------ *)
\* mutant of CacheHit: an entry exactly one TTL old still counts as fresh
CacheHitAtTTL(url, t) ==
  /\ url \in DOMAIN video_info_cache
  /\ t - video_info_cache[url].timestamp <= VIDEO_INFO_CACHE_TTL

\* app.py:204-206, the cache-hit test
CacheHit(url, t) ==
  /\ url \in DOMAIN video_info_cache
  /\ t - video_info_cache[url].timestamp < VIDEO_INFO_CACHE_TTL

\* app.py:216-223, the response built from what the external fetch returned;
\* serial tells the external calls for one url apart
Response(url, serial) == [id |-> url, serial |-> serial]

\* mutant of get_video_info: a request joins the fetch in flight for its url
get_video_info_single_flight(url) ==
  /\ info_requests < MaxInfoRequests
  /\ info_requests' = info_requests + 1
  /\ IF url = NoUrl \/ CacheHit(url, now) \/ \E r \in fetches : r.url = url
     THEN /\ response' = Reply("get_video_info", 200, NoId, "", NoText)
          /\ UNCHANGED <<fetches, fetch_calls, cache_hits>>
     ELSE /\ fetch_calls' = [fetch_calls EXCEPT ![url] = @ + 1]
          /\ fetches' = fetches \cup
               {[request |-> info_requests + 1, url |-> url, now |-> now,
                 serial |-> fetch_calls[url] + 1]}
          /\ UNCHANGED <<cache_hits, response>>
  /\ UNCHANGED <<otherVars, now, taskVars, video_info_cache, last_fetch>>

\* app.py:195-213, the handler up to the blocking external fetch
get_video_info(url) ==
  /\ info_requests < MaxInfoRequests
  /\ info_requests' = info_requests + 1
  /\ IF url = NoUrl
     THEN /\ response' = Reply("get_video_info", 400, NoId, "URL is required", NoText)
          /\ UNCHANGED <<fetches, fetch_calls, cache_hits>>
     ELSE IF CacheHit(url, now)
     THEN /\ cache_hits' = [cache_hits EXCEPT ![url] = @ + 1]  \* 208, no external call
          /\ response' = Reply("get_video_info", 200, NoId, "", NoText)
          /\ UNCHANGED <<fetches, fetch_calls>>
     ELSE /\ fetch_calls' = [fetch_calls EXCEPT ![url] = @ + 1]
          /\ fetches' = fetches \cup
               {[request |-> info_requests + 1, url |-> url, now |-> now,
                 serial |-> fetch_calls[url] + 1]}
          /\ UNCHANGED <<cache_hits, response>>
  /\ UNCHANGED <<otherVars, now, taskVars, video_info_cache, last_fetch>>

\* app.py:213-231, the external fetch returned
FetchReturns(r) ==
  /\ r \in fetches
  /\ fetches' = fetches \ {r}
  /\ video_info_cache' =
       [u \in DOMAIN video_info_cache \cup {r.url} |->
          IF u = r.url
          THEN [data |-> Response(r.url, r.serial), timestamp |-> r.now]
          ELSE video_info_cache[u]]
  /\ last_fetch' = [last_fetch EXCEPT ![r.url] = r.now]
  /\ response' = Reply("get_video_info", 200, NoId, "", NoText)
  /\ UNCHANGED <<otherVars, now, taskVars, fetch_calls, info_requests, cache_hits>>

\* mutant of BotDetected: only the sign-in phrase is looked for
BotDetectedSignInOnly(error_msg) == Contains(error_msg, PhraseSignIn)

\* app.py:238, the bot-detection test on str(e)
BotDetected(error_msg) ==
  \/ Contains(error_msg, PhraseSignIn)
  \/ Contains(Lower(error_msg), PhraseBot)

\* app.py:239-245, the response of the except branch
FetchFailureReply(error_msg) ==
  IF BotDetected(error_msg)
  THEN Reply("get_video_info", 503, NoId,
             "YouTube bot detection triggered. Server needs cookies configured.",
             error_msg)
  ELSE Reply("get_video_info", 400, NoId, "str(e)", error_msg)

\* app.py:234 and downloader.py:152, the response to each failure of the lookup:
\* str(e) is the prefix of downloader.get_video_info followed by the message
FetchFailureReplies ==
  [raised \in FetchFailures |-> FetchFailureReply(InfoErrorPrefix \o raised)]

\* mutant of FetchRaises: a failed fetch stores an entry without payload
FetchRaisesCaching(r, raised) ==
  /\ r \in fetches
  /\ fetches' = fetches \ {r}
  /\ response' = FetchFailureReplies[raised]
  /\ video_info_cache' =
       [u \in DOMAIN video_info_cache \cup {r.url} |->
          IF u = r.url
          THEN [data |-> Response(NoUrl, 0), timestamp |-> r.now]
          ELSE video_info_cache[u]]
  /\ UNCHANGED <<otherVars, now, taskVars, fetch_calls, info_requests, cache_hits, last_fetch>>

\* app.py:233-245 and downloader.py:151-152, the external fetch raised `raised`
FetchRaises(r, raised) ==
  /\ r \in fetches
  /\ fetches' = fetches \ {r}
  /\ response' = FetchFailureReplies[raised]
  /\ UNCHANGED <<otherVars, now, taskVars, video_info_cache, fetch_calls, info_requests,
                 cache_hits, last_fetch>>

(* --------------------------- specification ---------------------------- *)
\* the download side: submissions of the given format types from `clients`, who
\* pass a socket_id in `sockets`, and first attempts that fail with `failures`
Downloads(limit, types, clients, sockets, failures) ==
  \/ \E url \in Urls, format \in Formats, format_type \in types,
        socket_id \in sockets, client \in clients :
       start_download(limit, client, url, format, format_type, socket_id)
  \/ StartTask
  \/ \E t \in Ids, written \in WrittenExts : DownloadReturns(t, written)
  \/ \E t \in Ids, e \in failures : DownloadRaises(t, e)

\* the end of the fallback attempt
Fallbacks ==
  \/ \E t \in Ids, native \in NativeExts, written \in WrittenExts :
       FallbackReturns(t, native, written)
  \/ \E t \in Ids : FallbackRaises(t)

\* the read side and the rejected submission
Reads(limit) ==
  \/ start_download(limit, NoSocket, NoUrl, "mp4", "video", NoSocket)
  \/ \E download_id \in 1..limit : download_status(download_id)
  \/ \E download_id \in 1..limit : download_file(download_id)

\* one failure that is retried with 'best' and one that is not
Retried == [cls |-> "DownloadError", msg |-> ErrFormatUnavailable]
NotRetried == [cls |-> "DownloadError", msg |-> ErrForbidden]

\* registry, scheduler and sweeper: video downloads of clients that open no socket
Next ==
  \/ \E d \in TickSteps : Tick(d)
  \/ Downloads(MaxTasks, {"video"}, {NoSocket}, {NoSocket}, {Retried, NotRetried})
  \/ Fallbacks
  \/ SweepCycle

Spec == Init /\ [][Next]_vars

\* the HTTP side: submissions, status queries and file requests, with the workers
\* and the sweeper
NextReads ==
  \/ \E d \in TickSteps : Tick(d)
  \/ Downloads(MaxTasks, {"video"}, {NoSocket}, {NoSocket}, {NotRetried})
  \/ Reads(MaxTasks)
  \/ SweepCycle

SpecReads == Init /\ [][NextReads]_vars

\* the progress channel: clients that are connected and pass a socket room
NextProgress ==
  \/ \E d \in TickSteps : Tick(d)
  \/ Downloads(MaxTasks, {"video"}, Sockets, Sockets \cup {NoSocket}, {Retried})
  \/ Fallbacks
  \/ \E t \in Ids, status \in {"downloading", "finished"} : ProgressHook(t, status)
  \/ SweepCycle

SpecProgress == Init /\ [][NextProgress]_vars

\* a burst of video submissions against the worker pool, the clock standing still
NextPool ==
  Downloads(MaxBurst, {"video"}, {NoSocket}, {NoSocket}, {NotRetried})

SpecPool == Init /\ [][NextPool]_vars

\* the attempts of video and audio downloads, under every failure of the first
\* attempt, the clock standing still
NextAttempts ==
  \/ Downloads(MaxTasks, FormatTypes, {NoSocket}, {NoSocket}, DownloadFailures)
  \/ Fallbacks

SpecAttempts == Init /\ [][NextAttempts]_vars

\* a connected client that submits, listens to its room and asks for the file
NextEvents ==
  \/ \E d \in TickSteps : Tick(d)
  \/ Downloads(MaxTasks, {"video"}, {"s1"}, {"s1"}, {NotRetried})
  \/ Reads(MaxTasks)
  \/ SweepCycle

SpecEvents == Init /\ [][NextEvents]_vars

\* more submissions than workers, records that outlive their retention window
\* while their task runs, and the pool's workers: a worker thread that is free
\* blocks on the work queue and takes the next item as soon as there is one
\* (concurrent.futures.thread._worker), so StartTask is weakly fair
NextLive ==
  \/ Tick(DOWNLOAD_TTL + VIDEO_INFO_CACHE_TTL)
  \/ start_download(MaxLive, NoSocket, "u1", "mp4", "video", NoSocket)
  \/ StartTask
  \/ \E t \in Ids : DownloadReturns(t, "mp4")
  \/ \E t \in Ids : DownloadRaises(t, NotRetried)
  \/ SweepCycle

SpecLive == Init /\ [][NextLive]_vars /\ WF_vars(StartTask)

\* the start of the process in both ways, then the server at work
InitStartup ==
  /\ InitRegistry
  /\ NoCalls
  /\ cleanup_threads = 0
  /\ startup \in {[name |-> n, at |-> "load"] : n \in ModuleNames}

NextStartup ==
  \/ ModuleLoad
  \/ Main
  \/ startup.at = "serving" /\ \E d \in TickSteps : Tick(d)
  \/ startup.at = "serving" /\
       Downloads(MaxTasks, {"video"}, {NoSocket}, {NoSocket}, {NotRetried})
  \/ startup.at = "serving" /\ SweepCycle

SpecStartup == InitStartup /\ [][NextStartup]_vars

\* the format policy: download() called with every quality, container and type
InitFormatPolicy ==
  /\ InitRegistry
  /\ download_args \in [quality : Qualities, format : Containers,
                         format_type : SelectionTypes]
  /\ format_string = NoFormatString
  /\ formats = <<>>
  /\ listing = NoListing
  /\ Imported

NextFormatPolicy == BuildFormatString

SpecFormatPolicy == InitFormatPolicy /\ [][NextFormatPolicy]_vars

\* the formats listing: list_formats called on every list of the extractor
InitListing ==
  /\ InitRegistry
  /\ download_args = NoArgs
  /\ format_string = NoFormatString
  /\ formats \in FormatLists
  /\ listing = NoListing
  /\ Imported

NextListing == \E url \in Urls \cup {NoUrl}, raised \in BOOLEAN : list_formats(url, raised)

SpecListing == InitListing /\ [][NextListing]_vars

\* the metadata cache and the sweeper
NextCache ==
  \/ \E d \in TickSteps : Tick(d)
  \/ \E url \in InfoUrls \cup {NoUrl} : get_video_info(url)
  \/ \E r \in fetches : FetchReturns(r)
  \/ \E r \in fetches, raised \in FetchFailures : FetchRaises(r, raised)
  \/ SweepCycle

SpecCache == Init /\ [][NextCache]_vars

(* ============================== claims ================================ *)
Statuses == {"downloading", "completed", "error"}

\* the lifecycle state of the spec's vocabulary that a stored status stands for
Lifecycle(status) ==
  CASE status = "downloading" -> "pending"
    [] status = "completed" -> "completed"
    [] status = "error" -> "failed"
    [] OTHER -> "unknown"

\* C1 as stated: every record is pending, running, completed or failed, a record
\* whose task waits in the backlog is pending, and the worker that takes the task
\* moves the record on to running.
C1_Original ==
  \A t \in DOMAIN active_downloads :
    /\ Lifecycle(active_downloads[t].status) \in {"pending", "running", "completed", "failed"}
    /\ pc[t] = "queued" => Lifecycle(active_downloads[t].status) = "pending"
    /\ pc[t] = "running" => Lifecycle(active_downloads[t].status) # "pending"

\* C1 amended: a record's status is one of downloading, completed, error; it is
\* created as downloading under an id never used before, and the only change of
\* status any step makes is downloading -> completed or downloading -> error.
C1_Forward ==
  [][ /\ \A t \in DOMAIN active_downloads :
           /\ active_downloads[t].status \in Statuses
           /\ t \in DOMAIN active_downloads' =>
                \/ active_downloads'[t].status = active_downloads[t].status
                \/ /\ active_downloads[t].status = "downloading"
                   /\ active_downloads'[t].status \in {"completed", "error"}
      /\ \A t \in DOMAIN active_downloads' \ DOMAIN active_downloads :
           /\ t \notin Ids
           /\ active_downloads'[t].status = "downloading" ]_vars

\* C1 witness: one record has reached completed and another error
C1_Witness ==
  \E t, u \in DOMAIN active_downloads :
    /\ active_downloads[t].status = "completed"
    /\ active_downloads[u].status = "error"

\* C2: the number of tasks the workers execute at the same time never exceeds
\* the worker limit, however many tasks are submitted in a burst.
C2_WorkerLimit == Cardinality(Running) <= MaxWorkers

\* C2 witness: every worker is busy and submissions are waiting
C2_Witness ==
  /\ Cardinality(Running) = MaxWorkers
  /\ Len(queue) >= 2

\* the path download() returns for task t
ReturnedPath(t) ==
  OutputPath(tasks[t].url, FinalExt(tasks[t].format_type, tasks[t].format))

\* C3: a step that turns a record completed records a non-empty path that exists
\* on disk at that instant, and a worker whose download returned a path that does
\* not exist marks the record error instead.
C3_VerifiedArtifact ==
  [][\A t \in DOMAIN active_downloads \cap DOMAIN active_downloads' :
       /\ ( /\ active_downloads[t].status # "completed"
            /\ active_downloads'[t].status = "completed" )
          => /\ active_downloads'[t].filepath # NoPath
             /\ Exists(active_downloads'[t].filepath, files')
       /\ ( /\ pc[t] = "running"
            /\ pc'[t] = "done"
            /\ ~Exists(ReturnedPath(t), files') )
          => active_downloads'[t].status = "error" ]_vars

\* C3 witness: one task was completed on a verified file, another failed the check
C3_Witness ==
  \E t, u \in DOMAIN active_downloads :
    /\ active_downloads[t].status = "completed"
    /\ Exists(active_downloads[t].filepath, files)
    /\ active_downloads[u].error = MsgFileNotFound

\* a worker has finished with task t, by returning or by an escaping exception
Ended(t) == pc[t] \in {"done", "crashed"}

\* C4 (as a property of finished runs): once the external download call has
\* returned or raised and the worker is done with the task, the task's record has
\* reached completed or failed.
C4_RunsToTerminal ==
  \A t \in Ids : Ended(t) => outcome[t] \in {"completed", "error"}

\* the age of a record at the current instant
Age(id) == now - active_downloads[id].timestamp

\* C5 (the part about survivors; an unlink may fail, so the deletion of the expired
\* file is left to C17): a sweep removes every completed record older than the TTL,
\* and every record younger than the TTL survives it untouched, record present,
\* fields unchanged, its file still on disk.
C5_SweepRetention ==
  [][SweepCycle =>
       \A id \in DOMAIN active_downloads :
         /\ ( /\ active_downloads[id].status = "completed"
              /\ Age(id) > DOWNLOAD_TTL )
            => id \notin DOMAIN active_downloads'
         /\ Age(id) < DOWNLOAD_TTL
            => /\ id \in DOMAIN active_downloads'
               /\ active_downloads'[id] = active_downloads[id]
               /\ ( /\ active_downloads[id].status = "completed"
                    /\ Exists(active_downloads[id].filepath, files) )
                  => Exists(active_downloads[id].filepath, files') ]_vars

\* C6: a record leaves the registry only in a sweep cycle, and only when its age
\* at that instant, measured from the timestamp it carries then, exceeds the
\* retention window.
C6_OnlySweeperRemoves ==
  [][\A id \in DOMAIN active_downloads :
       id \notin DOMAIN active_downloads'
         => /\ SweepCycle
            /\ now - active_downloads[id].timestamp > DOWNLOAD_TTL ]_vars

\* C6 witness: the sweeper has removed one record and kept another, whose worker
\* had refreshed the timestamp on completion or failure
C6_Witness ==
  \E t \in Ids \ DOMAIN active_downloads :
    \E u \in DOMAIN active_downloads :
      /\ u < t
      /\ active_downloads[u].status # "downloading"
      /\ now > DOWNLOAD_TTL

IsPrefix(s, t) == Len(s) <= Len(t) /\ SubSeq(t, 1, Len(s)) = s

\* C8: in every room the events of a task only ever grow at the end, one event at
\* a time, published by the running worker of that task to the task's own room,
\* and never after the task's terminal event; the step leaves the events of every
\* other task as they were.
C8_EmissionOrder ==
  [][\A s \in Sockets : \A t \in Ids :
       LET old == EventsOf(t, rooms[s])
           new == EventsOf(t, rooms'[s])
       IN /\ IsPrefix(old, new)
          /\ new # old =>
               /\ Len(new) = Len(old) + 1
               /\ s = tasks[t].socket_id
               /\ t \in Running
               /\ \A i \in 1..Len(old) : old[i].name = "download_progress"
               /\ \A u \in Ids \ {t} : \A z \in Sockets :
                    EventsOf(u, rooms'[z]) = EventsOf(u, rooms[z]) ]_vars

\* C8 witness: two tasks share a room and the terminal event of the first comes
\* after an event of the second, which came after a progress event of the first
C8_Witness ==
  \E s \in Sockets :
    /\ Len(rooms[s]) >= 3
    /\ rooms[s][1].src # rooms[s][2].src
    /\ rooms[s][1].name = "download_progress"
    /\ rooms[s][3].src = rooms[s][1].src
    /\ rooms[s][3].name # "download_progress"

\* C9 as stated: a status query or a file request leaves the registry unchanged.
C9_Original ==
  [][\A id \in 1..MaxTasks :
       (download_status(id) \/ download_file(id))
         => active_downloads' = active_downloads ]_vars

\* C9 amended: a status query leaves the registry unchanged; a file request adds
\* and removes no record and changes no status, url, timestamp or error, and it
\* rewrites filepath and filename of the requested record only, only when that
\* record is completed and its recorded path no longer exists, to a sibling of
\* the recorded path (same folder and base name) that exists on disk.
C9_ReadPaths ==
  [][\A id \in 1..MaxTasks :
       /\ download_status(id) => active_downloads' = active_downloads
       /\ download_file(id) =>
            /\ DOMAIN active_downloads' = DOMAIN active_downloads
            /\ \A t \in DOMAIN active_downloads :
                 LET old == active_downloads[t]
                     new == active_downloads'[t]
                 IN /\ new.status = old.status
                    /\ new.url = old.url
                    /\ new.timestamp = old.timestamp
                    /\ new.error = old.error
                    /\ new # old =>
                         /\ t = id
                         /\ old.status = "completed"
                         /\ ~Exists(old.filepath, files)
                         /\ Exists(new.filepath, files)
                         /\ new.filepath.dir = old.filepath.dir
                         /\ new.filepath.base = old.filepath.base
                         /\ new.filename = Basename(new.filepath) ]_vars

\* C9 witness: a completed record whose path was rewritten to a sibling: it points
\* at a file on disk that is not the path its download returned
C9_Witness ==
  \E t \in DOMAIN active_downloads :
    /\ active_downloads[t].status = "completed"
    /\ active_downloads[t].filepath # ReturnedPath(t)
    /\ Exists(active_downloads[t].filepath, files)

\* C10: no exception escapes a worker, and an exception caught in download_task is
\* written into the task's record as error with its message.
C10_FailuresRecorded ==
  \A t \in Ids :
    /\ pc[t] # "crashed"
    /\ (t \in DOMAIN active_downloads /\ caught[t] # NoError)
         => /\ active_downloads[t].status = "error"
            /\ active_downloads[t].error = caught[t]

\* C11: a download submission without a url is answered 400 and leaves the
\* registry, the task list and the work queue unchanged; a submission with a url
\* is answered 200 and adds exactly one record, under an id no task ever had,
\* present in the registry in the state in which the id enters the work queue;
\* and no other step adds a record.
C11_SubmissionValidation ==
  [][ /\ start_download(MaxTasks, NoSocket, NoUrl, "mp4", "video", NoSocket) =>
           /\ response'.status = 400
           /\ active_downloads' = active_downloads
           /\ tasks' = tasks
           /\ queue' = queue
      /\ \A url \in Urls, format_type \in FormatTypes :
           start_download(MaxTasks, NoSocket, url, "mp4", format_type, NoSocket) =>
             /\ response'.status = 200
             /\ response'.download_id \notin Ids
             /\ response'.download_id \notin DOMAIN active_downloads
             /\ DOMAIN active_downloads' =
                  DOMAIN active_downloads \cup {response'.download_id}
             /\ \A id \in DOMAIN active_downloads :
                  active_downloads'[id] = active_downloads[id]
             /\ active_downloads'[response'.download_id].url = url
             /\ queue' = Append(queue, response'.download_id)
      /\ DOMAIN active_downloads' \ DOMAIN active_downloads # {} =>
           /\ Cardinality(DOMAIN active_downloads' \ DOMAIN active_downloads) = 1
           /\ response'.handler = "start_download"
           /\ response'.status = 200
           /\ active_downloads'[response'.download_id].url # NoUrl
      /\ \A i \in 1..Len(queue') :
           (\A j \in 1..Len(queue) : queue[j] # queue'[i])
             => queue'[i] \in DOMAIN active_downloads' ]_vars

\* C11 witness: a submission without a url was rejected after an accepted one,
\* whose record is in the registry and whose task is in the work queue
C11_Witness ==
  /\ response.handler = "start_download"
  /\ response.status = 400
  /\ \E t \in DOMAIN active_downloads : pc[t] = "queued"

\* the first attempt of task t failed in this step
FirstAttemptFails(t) == pc[t] = "running" /\ first_error'[t] # first_error[t]

\* C12: a task's download is attempted once when a worker takes the task; a second
\* attempt is made exactly when the first fails because the requested format is
\* unavailable (or no format is found), and it is the last: when it fails the worker
\* is finished with the task, as it is when the first attempt fails in any other
\* way.  No task makes more than two attempts and a finished task makes none.
C12_OneFallback ==
  [][\A t \in Ids :
       /\ attempts[t] <= 2 /\ attempts'[t] <= 2
       /\ attempts'[t] # attempts[t] =>
            \/ /\ attempts[t] = 0 /\ attempts'[t] = 1
               /\ pc[t] = "queued" /\ pc'[t] = "running"
            \/ /\ attempts[t] = 1 /\ attempts'[t] = 2
               /\ FirstAttemptFails(t)
               /\ first_error'[t] \in {ErrFormatUnavailable, ErrNoFormats}
       /\ FirstAttemptFails(t) =>
            IF first_error'[t] \in {ErrFormatUnavailable, ErrNoFormats}
            THEN attempts'[t] = 2 /\ pc'[t] = "fallback"
            ELSE attempts'[t] = 1 /\ Ended(t)' /\ caught'[t] = MsgDownloadFailed
       /\ (pc[t] = "fallback" /\ pc'[t] # "fallback") =>
            Ended(t)' /\ attempts'[t] = 2
       /\ Ended(t) => Ended(t)' /\ attempts'[t] = attempts[t] ]_vars

\* C12 witness: one task failed in its fallback after two attempts, another failed
\* after its only attempt
C12_Witness ==
  \E t, u \in Ids :
    /\ Ended(t) /\ attempts[t] = 2 /\ caught[t] = MsgFallbackFailed
    /\ Ended(u) /\ attempts[u] = 1 /\ caught[u] = MsgDownloadFailed

\* C13: tasks are started in the order of their submission: a task is never waiting
\* while a task submitted after it has started, and the backlog holds exactly the
\* waiting tasks, oldest first, whatever its length.
C13_FifoStart ==
  /\ \A a, b \in Ids : (a < b /\ pc[b] # "queued") => pc[a] # "queued"
  /\ \A i, j \in 1..Len(queue) : i < j => queue[i] < queue[j]
  /\ {queue[i] : i \in 1..Len(queue)} = {t \in Ids : pc[t] = "queued"}

\* C13 witness: with every worker busy and a task still waiting, a task submitted
\* beyond the worker limit has been started, after an earlier one finished
C13_Witness ==
  /\ Cardinality(Running) = MaxWorkers
  /\ \E a, b, c \in Ids :
       /\ a < b /\ b < c
       /\ Ended(a)
       /\ b > MaxWorkers /\ pc[b] = "running"
       /\ pc[c] = "queued"

\* the recorded path of a record or one of its siblings with a probed extension is
\* on disk
Locatable(id) ==
  \/ Exists(active_downloads[id].filepath, files)
  \/ \E ext \in {"mp3", "m4a", "opus", "flac", "mp4", "webm", "mkv"} :
       Exists([active_downloads[id].filepath EXCEPT !.ext = ext], files)

\* C14: a file request is answered 404 when the id is not in the registry, 400 with
\* a message that ends in the record's current status when the record is not
\* completed, 404 when the record is completed and neither its recorded path nor a
\* probed sibling exists, and with the file (200) in every other case.
C14_FileResponses ==
  [][\A id \in 1..MaxTasks :
       download_file(id) =>
         /\ response'.handler = "download_file"
         /\ response'.download_id = id
         /\ IF id \notin DOMAIN active_downloads
            THEN response'.status = 404
            ELSE IF active_downloads[id].status # "completed"
            THEN /\ response'.status = 400
                 /\ response'.error =
                      "Download not completed. Status: " \o active_downloads[id].status
            ELSE IF ~Locatable(id)
            THEN response'.status = 404
            ELSE response'.status = 200 ]_vars

\* C14 witness: the file of a completed record that is still in the registry was
\* requested and answered 404, neither its path nor a sibling being on disk
C14_Witness ==
  /\ response.handler = "download_file"
  /\ response.status = 404
  /\ response.download_id \in DOMAIN active_downloads
  /\ active_downloads[response.download_id].status = "completed"
  /\ ~Locatable(response.download_id)

\* the failures whose message holds the sign-in phrase or the word bot, letter case
\* ignored
C15_ChallengeAnyCase ==
  {raised \in FetchFailures :
     \/ Contains(Lower(InfoErrorPrefix \o raised), Lower(PhraseSignIn))
     \/ Contains(Lower(InfoErrorPrefix \o raised), Lower(PhraseBot))}

\* C15 as stated: a failed metadata fetch is answered 503 with the bot-detection
\* payload exactly when the error message contains the sign-in phrase or the word
\* bot, letter case ignored for both, and 400 with the message otherwise.
C15_Original ==
  [][\A r \in fetches, raised \in FetchFailures :
       FetchRaises(r, raised) =>
         IF raised \in C15_ChallengeAnyCase
         THEN response'.status = 503
         ELSE /\ response'.status = 400
              /\ response'.technical = InfoErrorPrefix \o raised ]_vars

\* the failures whose message holds 'Sign in to confirm' as written or the letters
\* 'bot' in any letter case
C15_SignInOrBot ==
  {raised \in FetchFailures :
     \/ Contains(InfoErrorPrefix \o raised, PhraseSignIn)
     \/ Contains(Lower(InfoErrorPrefix \o raised), Lower(PhraseBot))}

\* C15 amended: a failed metadata fetch is answered 503 with the bot-detection
\* payload, the message in its 'technical' field, exactly when the message contains
\* 'Sign in to confirm' in this very letter case or the letters 'bot' in any letter
\* case, and 400 with the message as the error otherwise.
C15_BotDetection ==
  [][\A r \in fetches, raised \in FetchFailures :
       FetchRaises(r, raised) =>
         /\ response'.handler = "get_video_info"
         /\ response'.technical = InfoErrorPrefix \o raised
         /\ IF raised \in C15_SignInOrBot
            THEN /\ response'.status = 503
                 /\ response'.error # "str(e)"
            ELSE /\ response'.status = 400
                 /\ response'.error = "str(e)" ]_vars

\* C15 witness: a fetch failed with the sign-in phrase in lower case and was
\* answered 400
C15_Witness ==
  /\ response.handler = "get_video_info"
  /\ response.status = 400
  /\ Contains(Lower(response.technical), Lower(PhraseSignIn))

\* C16: every event of a task is in the room of the connection that submitted the
\* task, and in no other room.
C16_OwnChannel ==
  \A s \in Sockets : \A i \in 1..Len(rooms[s]) :
    tasks[rooms[s][i].src].client = s

\* C17: a sweep cycle removes every record older than the retention window,
\* whatever its status and whether or not the deletion of a file fails, and every
\* file it deletes is the recorded file of a completed record it removes.
C17_SweepRemovesExpired ==
  [][SweepCycle =>
       /\ \A id \in DOMAIN active_downloads :
            Age(id) > DOWNLOAD_TTL => id \notin DOMAIN active_downloads'
       /\ \A f \in files \ files' :
            \E id \in DOMAIN active_downloads \ DOMAIN active_downloads' :
              /\ active_downloads[id].status = "completed"
              /\ active_downloads[id].filepath = f ]_vars

\* C17 witness: the sweeper has removed a completed record whose file is still on
\* disk, the deletion having failed, and a record that had not completed; no
\* other task wrote a file
C17_Witness ==
  \E t, u \in Ids \ DOMAIN active_downloads :
    /\ outcome[t] = "completed"
    /\ Exists(ReturnedPath(t), files)
    /\ outcome[u] = "error"
    /\ caught[u] = MsgDownloadFailed
    /\ Len(tasks) = 2

\* C18: a metadata request for a url that has no fresh cache entry issues an
\* external fetch of its own, also while other fetches for the same url are in
\* flight; and each fetch that returns overwrites the entry with its own payload
\* and the time at which its own request began, so the entry left is that of the
\* request that finished last.
C18_NoDeduplication ==
  [][ /\ \A u \in InfoUrls :
           ( /\ get_video_info(u)
             /\ ~( /\ u \in DOMAIN video_info_cache
                   /\ now - video_info_cache[u].timestamp < VIDEO_INFO_CACHE_TTL ) )
           => /\ fetch_calls'[u] = fetch_calls[u] + 1
              /\ Cardinality(fetches') = Cardinality(fetches) + 1
              /\ \E r \in fetches' \ fetches : r.url = u /\ r.now = now
      /\ \A r \in fetches :
           FetchReturns(r) =>
             /\ video_info_cache'[r.url].data = [id |-> r.url, serial |-> r.serial]
             /\ video_info_cache'[r.url].timestamp = r.now ]_vars

\* C18 witness: two fetches for one url overlapped; the second has returned and
\* filled the cache, the first, issued earlier, is still in flight and will
\* overwrite the entry with its older timestamp
C18_Witness ==
  \E r \in fetches :
    /\ r.serial = 1
    /\ r.url \in DOMAIN video_info_cache
    /\ video_info_cache[r.url].data.serial = 2
    /\ r.now < video_info_cache[r.url].timestamp

\* C19: a request that finds an entry older than the cache TTL treats it as absent
\* and fetches again; and every entry the cache holds after a sweep cycle is one
\* that a request made at that moment would still answer from the cache.
C19_ExpiryAgrees ==
  [][ /\ \A u \in InfoUrls :
           ( /\ get_video_info(u)
             /\ u \in DOMAIN video_info_cache
             /\ now - video_info_cache[u].timestamp > VIDEO_INFO_CACHE_TTL )
           => /\ cache_hits' = cache_hits
              /\ fetch_calls'[u] = fetch_calls[u] + 1
      /\ SweepCycle =>
           \A u \in DOMAIN video_info_cache' : CacheHit(u, now)' ]_vars

\* C20: a cache entry is created or changed only by a request whose external fetch
\* has returned, which is answered 200 and stores payload and timestamp of that
\* one request together; a fetch that fails, a request without a url and a
\* request that is answered from the cache or starts a fetch leave the cache
\* exactly as it was.
C20_CacheWrites ==
  [][ /\ \A u \in DOMAIN video_info_cache' :
           (u \notin DOMAIN video_info_cache \/ video_info_cache'[u] # video_info_cache[u])
           => \E r \in fetches \ fetches' :
                /\ r.url = u
                /\ response'.status = 200
                /\ video_info_cache'[u] =
                     [data |-> [id |-> u, serial |-> r.serial], timestamp |-> r.now]
      /\ (fetches' # fetches /\ response'.technical # NoText) =>
           video_info_cache' = video_info_cache
      /\ \A url \in InfoUrls \cup {NoUrl} :
           get_video_info(url) => video_info_cache' = video_info_cache
      /\ get_video_info(NoUrl) => response'.status = 400 /\ fetches' = fetches ]_vars

\* C20 witness: an entry was overwritten by a second successful fetch, and the
\* request answered last was one whose fetch failed
C20_Witness ==
  /\ response.handler = "get_video_info"
  /\ response.technical # NoText
  /\ \E u \in DOMAIN video_info_cache : video_info_cache[u].data.serial = 2

\* the worker that executes task t ends the task in this step
OwnerEnds(t) == t \in Running /\ pc'[t] = "done"

\* each task is in the work queue at most once and only until a worker takes it,
\* a worker takes only a task that waits, and a task that was taken never waits
\* or starts again
ExecutedOnce ==
  /\ \A i, j \in 1..Len(queue) : queue[i] = queue[j] => i = j
  /\ \A t \in Ids :
       /\ (\E i \in 1..Len(queue) : queue[i] = t) <=> pc[t] = "queued"
       /\ (pc[t] # "running" /\ pc'[t] = "running") => pc[t] = "queued"
       /\ pc[t] # "queued" => pc'[t] # "queued"
       /\ Ended(t) => pc'[t] = pc[t]

\* C21 as stated: each task is executed by one worker, once, and the status,
\* filepath, filename and error of a record change only in the step in which the
\* worker that executes the task ends it.
C21_Original ==
  [][ /\ ExecutedOnce
      /\ \A t \in DOMAIN active_downloads \cap DOMAIN active_downloads' :
           ( \/ active_downloads'[t].status # active_downloads[t].status
             \/ active_downloads'[t].filepath # active_downloads[t].filepath
             \/ active_downloads'[t].filename # active_downloads[t].filename
             \/ active_downloads'[t].error # active_downloads[t].error )
           => OwnerEnds(t) ]_vars

\* C21 amended: each task is executed by one worker, once; status and error of a
\* record change only in the step in which the worker that executes the task ends
\* it; filepath and filename change in that step, and otherwise only when a file
\* request for that record, which is completed, answers with a sibling file.
C21_SingleWriter ==
  [][ /\ ExecutedOnce
      /\ \A t \in DOMAIN active_downloads \cap DOMAIN active_downloads' :
           /\ ( \/ active_downloads'[t].status # active_downloads[t].status
                \/ active_downloads'[t].error # active_downloads[t].error )
              => OwnerEnds(t)
           /\ ( \/ active_downloads'[t].filepath # active_downloads[t].filepath
                \/ active_downloads'[t].filename # active_downloads[t].filename )
              => \/ OwnerEnds(t)
                 \/ /\ active_downloads[t].status = "completed"
                    /\ response'.handler = "download_file"
                    /\ response'.download_id = t
                    /\ response'.status = 200 ]_vars

\* C21 witness: both tasks were executed and ended by their workers, and the file
\* request answered last rewrote the path of a completed record
C21_Witness ==
  /\ \A t \in 1..MaxTasks : t \in Ids /\ pc[t] = "done"
  /\ response.handler = "download_file"
  /\ response.status = 200
  /\ response.download_id \in DOMAIN active_downloads
  /\ active_downloads[response.download_id].filepath # ReturnedPath(response.download_id)

\* the events of task t in all rooms, room by room
AllEventsOf(t) == [s \in Sockets |-> EventsOf(t, rooms[s])]

\* the terminal events of task t: (room, position) pairs
TerminalsOf(t) ==
  {p \in Sockets \X (1..MaxProgress + 2) :
     /\ p[2] <= Len(AllEventsOf(t)[p[1]])
     /\ AllEventsOf(t)[p[1]][p[2]].name # "download_progress"}

\* C22: a task has at most one terminal event; it is the last event of the task;
\* a complete event belongs to a task whose worker recorded it completed, an
\* error event to a task whose worker recorded it failed, with that error.
C22_OneTerminalEvent ==
  \A t \in Ids :
    /\ Cardinality(TerminalsOf(t)) <= 1
    /\ \A p \in TerminalsOf(t) :
         LET events == AllEventsOf(t)[p[1]]
             e == events[p[2]]
         IN /\ p[2] = Len(events)
            /\ \A s \in Sockets \ {p[1]} : AllEventsOf(t)[s] = <<>>
            /\ e.name = "download_complete" =>
                 /\ outcome[t] = "completed"
                 /\ t \in DOMAIN active_downloads =>
                      active_downloads[t].status = "completed"
            /\ e.name = "download_error" =>
                 /\ outcome[t] = "error"
                 /\ t \in DOMAIN active_downloads =>
                      /\ active_downloads[t].status = "error"
                      /\ active_downloads[t].error = e.error

\* C22 witness: in one room a task ended with a complete event after a progress
\* event and another task ended with an error event
C22_Witness ==
  \E s \in Sockets : \E t, u \in Ids :
    LET a == EventsOf(t, rooms[s])
        b == EventsOf(u, rooms[s])
    IN /\ Len(a) = 2
       /\ a[1].name = "download_progress"
       /\ a[2].name = "download_complete"
       /\ b # <<>>
       /\ b[Len(b)].name = "download_error"

\* the alternative 'best', and 'bestvideo+bestaudio'
PlainBest == <<[name |-> "best", height |-> NoHeight, ext |-> NoExt]>>
AnyMerged == <<[name |-> "bestvideo", height |-> NoHeight, ext |-> NoExt],
               [name |-> "bestaudio", height |-> NoHeight, ext |-> NoExt]>>
\* the container a request asks for, mp4 standing in for any other value
RequestedExt ==
  IF download_args.format \in {"mp4", "webm", "mkv"} THEN download_args.format
  ELSE "mp4"
\* the resolution bound a request asks for: its quality without the letter p
RequestedBound ==
  IF download_args.quality \in {QualityBest, QualityWorst} THEN NoHeight
  ELSE SelectSeq(download_args.quality, LAMBDA c : c # "p")
\* positions of the separately fetched video+audio alternatives whose video
\* stream is tied to the requested container, and of those tied to none
MergedInContainer ==
  {i \in 1..Len(format_string) :
     Len(format_string[i]) = 2 /\ format_string[i][1].ext = RequestedExt}
MergedAnyContainer ==
  {i \in 1..Len(format_string) :
     Len(format_string[i]) = 2 /\ format_string[i][1].ext = NoExt}

\* C23 as stated: for every quality, container and format_type the expression
\* starts with a combined stream in the requested container and within the
\* resolution bound, then has video+audio in the requested container, then
\* video+audio in any container, and ends with 'best'.
C23_Original ==
  format_string # NoFormatString =>
    /\ Len(format_string[1]) = 1
    /\ format_string[1][1].ext = RequestedExt
    /\ format_string[1][1].height = RequestedBound
    /\ format_string[Len(format_string)] = PlainBest
    /\ MergedInContainer # {}
    /\ MergedAnyContainer # {}
    /\ \A i \in MergedInContainer, j \in MergedAnyContainer : 1 < i /\ i < j

\* C23: the order of the alternatives depends on the branch.  Audio: bestaudio,
\* best.  Video of quality best: video+audio first (in the container for mp4 and
\* webm), then video+audio of any container, then best, no combined stream
\* first.  Video of quality worst: worstvideo+worstaudio, worst.  A resolution
\* ceiling, or a format_type that is neither video nor audio, with mp4 or webm:
\* the combined stream in the container first (within the ceiling if there is
\* one), video+audio in the container before video+audio in any container, the
\* alternatives within the ceiling before those without, best last; a
\* format_type that is neither video nor audio sets no ceiling.  mkv: no
\* alternative names the container; with a ceiling best[h], bestvideo[h]+
\* bestaudio, best, and with another format_type best, bestvideo+bestaudio.
C23_FormatPolicy ==
  format_string # NoFormatString =>
    LET s == format_string
        n == Len(format_string)
        q == download_args.quality
        type == download_args.format_type
        ceiling == type = "video" /\ q \notin {QualityBest, QualityWorst}
        other == type \notin {"video", "audio"}
        bound == IF ceiling THEN RequestedBound ELSE NoHeight
    IN /\ n >= 2
       /\ \A i \in 1..n : Len(s[i]) \in {1, 2}
       /\ type = "audio" =>
            s = <<(<<[name |-> "bestaudio", height |-> NoHeight, ext |-> NoExt]>>),
                  PlainBest>>
       /\ (type = "video" /\ q = QualityBest) =>
            /\ Len(s[1]) = 2
            /\ s[n] = PlainBest
            /\ s[n - 1] = AnyMerged
            /\ \A i \in 1..(n - 1) : Len(s[i]) = 2
            /\ IF RequestedExt = "mkv" THEN n = 2
               ELSE n = 3 /\ MergedInContainer = {1}
       /\ (type = "video" /\ q = QualityWorst) =>
            s = <<(<<[name |-> "worstvideo", height |-> NoHeight, ext |-> NoExt],
                     [name |-> "worstaudio", height |-> NoHeight, ext |-> NoExt]>>),
                  (<<[name |-> "worst", height |-> NoHeight, ext |-> NoExt]>>)>>
       /\ ((ceiling \/ other) /\ RequestedExt # "mkv") =>
            /\ s[1] = <<[name |-> "best", height |-> bound, ext |-> RequestedExt]>>
            /\ s[n] = PlainBest
            /\ MergedInContainer # {}
            /\ MergedAnyContainer # {}
            /\ \A i \in MergedInContainer, j \in MergedAnyContainer : 1 < i /\ i < j
            /\ \A i \in 1..n, j \in 1..n :
                 (i < j /\ s[j][1].height # NoHeight) => s[i][1].height = s[j][1].height
            /\ \A i \in 1..n : s[i][1].height \in {NoHeight, bound}
       /\ (ceiling /\ RequestedExt = "mkv") =>
            s = <<(<<[name |-> "best", height |-> RequestedBound, ext |-> NoExt]>>),
                  (<<[name |-> "bestvideo", height |-> RequestedBound, ext |-> NoExt],
                     [name |-> "bestaudio", height |-> NoHeight, ext |-> NoExt]>>),
                  PlainBest>>
       /\ (other /\ RequestedExt = "mkv") => s = <<PlainBest, AnyMerged>>

\* C23 witness: the expression built for 720p, mp4, video starts with
\* best[height<=720][ext=mp4] and ends with best
C23_Witness ==
  /\ download_args = [quality |-> <<"7", "2", "0", "p">>, format |-> "mp4",
                      format_type |-> "video"]
  /\ format_string # NoFormatString
  /\ format_string[1] = <<[name |-> "best", height |-> <<"7", "2", "0">>,
                           ext |-> "mp4"]>>
  /\ format_string[Len(format_string)] = PlainBest

\* positions in the extractor's list of the first format of each resolution
FirstOfResolution ==
  {i \in 1..Len(formats) :
     /\ formats[i].vcodec # "none"
     /\ formats[i].resolution # AudioOnly
     /\ \A j \in 1..(i - 1) :
          formats[j].vcodec # "none" => formats[j].resolution # formats[i].resolution}
\* positions of the audio-only formats
AudioOnlyFormats ==
  {i \in 1..Len(formats) : formats[i].vcodec = "none" /\ formats[i].acodec # "none"}
\* the k-th smallest member of a set of positions
Kth(positions, k) ==
  CHOOSE i \in positions : Cardinality({j \in positions : j <= i}) = k
Least(a, b) == IF a < b THEN a ELSE b

C25_LiveArtifactsKept ==
  \A id \in DOMAIN active_downloads :
    active_downloads[id].status = "completed"
      => Exists(active_downloads[id].filepath, files)

\* the event a step publishes in room s, if it publishes one
Published(s) == rooms'[s][Len(rooms'[s])]

\* C26: at the step that publishes the complete event of a task, the task's
\* record is in the registry with status completed and the filename of the event
\* and a filepath; at the step that publishes its error event, the record has
\* status error and the error of the event; and a file request for a task whose
\* complete event has been published is never answered 400.
C26_RecordBeforeEvent ==
  [][ /\ \A s \in Sockets :
           Len(rooms'[s]) > Len(rooms[s]) =>
             LET e == Published(s)
                 t == e.src
             IN /\ t \in DOMAIN active_downloads'
                /\ e.name = "download_complete" =>
                     /\ active_downloads'[t].status = "completed"
                     /\ active_downloads'[t].filename = e.filename
                     /\ active_downloads'[t].filepath # NoPath
                     /\ e.download_id = t
                /\ e.name = "download_error" =>
                     /\ active_downloads'[t].status = "error"
                     /\ active_downloads'[t].error = e.error
      /\ \A t \in Ids :
           ( /\ download_file(t)
             /\ \E s \in Sockets : \E i \in 1..Len(rooms[s]) :
                  rooms[s][i].src = t /\ rooms[s][i].name = "download_complete" )
           => response'.status # 400 ]_vars

\* C26 witness: the complete event of a task is in the room and the file request
\* for the task has been answered with the file
C26_Witness ==
  \E t \in Ids :
    /\ \E i \in 1..Len(rooms["s1"]) :
         rooms["s1"][i].src = t /\ rooms["s1"][i].name = "download_complete"
    /\ response.handler = "download_file"
    /\ response.download_id = t
    /\ response.status = 200
    /\ \E u \in Ids : \E i \in 1..Len(rooms["s1"]) :
         rooms["s1"][i].src = u /\ rooms["s1"][i].name = "download_error"

\* C27: every event in a room names, in its payload, the task that produced it.
C27_EventsNameTheirTask ==
  \A s \in Sockets : \A i \in 1..Len(rooms[s]) :
    rooms[s][i].download_id = rooms[s][i].src

\* tasks that hold a worker: between their start and their end, however they end
Occupying == {t \in Ids : pc[t] \notin {"queued", "done", "crashed"}}

\* C28: whenever fewer than MaxWorkers tasks hold a worker and a task waits at the
\* head of the queue, that task is eventually started; a task that ended, by
\* success, by a recorded failure or by an exception of its failure handler,
\* holds no worker.
C28_SlotsReleased ==
  \A u \in 1..MaxLive :
    (u \in Ids /\ queue # <<>> /\ queue[1] = u /\ Cardinality(Occupying) < MaxWorkers)
      ~> (u \in Ids /\ pc[u] # "queued")

\* C28 witness: of the first MaxWorkers tasks one or more ended by an exception
\* of the failure handler, the others still run, and the next task, which had to
\* wait for a slot, runs
C28_Witness ==
  /\ Len(pc) > MaxWorkers
  /\ \E t \in 1..MaxWorkers : pc[t] = "crashed"
  /\ \A t \in 1..MaxWorkers : pc[t] \in {"running", "crashed"}
  /\ pc[MaxWorkers + 1] = "running"

\* C29: in every state a request can observe, a completed record has a filepath
\* and a filename, a record with status error has an error message, and no file
\* request was answered 500 'File path not found in download info'.
C29_FieldsWithStatus ==
  /\ \A id \in DOMAIN active_downloads :
       /\ active_downloads[id].status = "completed"
            => /\ active_downloads[id].filepath # NoPath
               /\ active_downloads[id].filename # NoName
       /\ active_downloads[id].status = "error"
            => active_downloads[id].error # NoError
       /\ active_downloads[id].status = "downloading"
            => /\ active_downloads[id].filepath = NoPath
               /\ active_downloads[id].error = NoError
  /\ response.status # 500

\* C29 witness: a completed record and a failed record are in the registry and
\* the status of the failed one has just been queried
C29_Witness ==
  /\ \E id \in DOMAIN active_downloads : active_downloads[id].status = "completed"
  /\ response.handler = "download_status"
  /\ response.status = 200
  /\ response.download_id \in DOMAIN active_downloads
  /\ active_downloads[response.download_id].status = "error"

\* C30: once the server takes requests, exactly one cleanup loop runs in the
\* process, however the process was started.
C30_OneSweeper == startup.at = "serving" => cleanup_threads = 1

\* the file the post-processors configured for task t leave on disk: the title
\* with the requested container, mp4 standing in for any other value
ConvertedPath(t) ==
  OutputPath(tasks[t].url,
             IF tasks[t].format \in {"mp4", "webm", "mkv"} THEN tasks[t].format
             ELSE "mp4")

\* C31: when download() returns for a video task, on the first attempt or on the
\* fallback attempt, and the file in the requested container is on disk, the
\* artifact-exists check does not mark the task failed.
C31_FallbackPathNamesArtifact ==
  [][\A t \in Ids :
       ( /\ tasks[t].format_type = "video"
         /\ pc[t] \in {"running", "fallback"}
         /\ pc'[t] = "done"
         /\ caught'[t] \notin {MsgDownloadFailed, MsgFallbackFailed}
         /\ Exists(ConvertedPath(t), files') )
       => /\ caught'[t] # MsgFileNotFound
          /\ outcome'[t] = "completed" ]_vars

====
